---- MODULE Spec2Model ----
(***************************************************************************)
(* Subscriber preference resolution of novu's application-generic package. *)
(*                                                                         *)
(*   GetSubscriberTemplatePreference.execute  one workflow's preference    *)
(*   GetSubscriberPreference.execute          the batch over the active    *)
(*                                            workflows of an environment  *)
(*                                                                         *)
(* An optional value (T | undefined | null) is a sequence of length at     *)
(* most one: None is <<>>, Some(v) is <<v>>.  A channel map (the source's   *)
(* IPreferenceChannels) is a function from a set of channel names to       *)
(* BOOLEAN; its DOMAIN is Object.keys of the object.                       *)
(***************************************************************************)
EXTENDS Naturals, Sequences, FiniteSets

\* ------------------------------------------------------------------ bounds

\* Longest list of steps of a workflow.
MaxSteps == 2

\* Longest list of steps where queryActiveChannels is checked alone.
MaxQuerySteps == 3

\* Longest list of active workflows the batch call fetches.
MaxWorkflows == 2

\* ------------------------------------------------------------ optional values

None == << >>

Some(v) == << v >>

Opt(S) == {None} \cup {Some(v) : v \in S}

Range(seq) == {seq[n] : n \in DOMAIN seq}

\* ------------------------------------------------------------------- data

\* The channels: the keys of the hard-coded fallback map.
Channel == {"email", "sms", "in_app", "chat", "push"}

\* Every channel map whose keys are among chs.
ChannelMaps(chs) == UNION {[keys -> BOOLEAN] : keys \in SUBSET chs}

\* A step of a workflow.  type is the type of the message template the step
\* names by _templateId; template says whether the step carries that message
\* template embedded (step.template) or only its id.
StepSet(chs) == [active : BOOLEAN, template : BOOLEAN, type : chs]

\* The lists of at most n steps.
StepLists(chs, n) == UNION {[1..len -> StepSet(chs)] : len \in 0..n}

\* ------------------------------------------------ queryActiveChannels

\* steps.filter(step => step.active === true)
activeSteps(steps) == SelectSeq(steps, LAMBDA step : step.active)

\* activeSteps.some(step => !step.template)
stepMissingMessageTemplate(steps) ==
  \E n \in DOMAIN activeSteps(steps) : ~activeSteps(steps)[n].template

\* The elements of seq in first-seen order, repeats dropped: what the reduce
\* with list.includes builds, and what [...new Set(seq)] yields.
RECURSIVE unique(_)
unique(seq) ==
  IF seq = << >> THEN << >>
  ELSE LET init == unique(SubSeq(seq, 1, Len(seq) - 1))
           last == seq[Len(seq)]
       IN  IF last \in Range(init) THEN init ELSE Append(init, last)

\* The orders in which a list of documents can come back from a query that
\* states no sort.
Orders(seq) ==
  {[n \in DOMAIN seq |-> seq[p[n]]] :
     p \in {q \in [DOMAIN seq -> DOMAIN seq] :
              \A a, b \in DOMAIN seq : a # b => q[a] # q[b]}}

\* messageTemplateRepository.find({_id: {$in: messageIds}}): the message
\* templates of the active steps, in an order the query does not fix.  The
\* store holds the message template of every step.
findMessageTemplates(steps) == Orders(activeSteps(steps))

types(docs) == [n \in DOMAIN docs |-> docs[n].type]

\* queryActiveChannels with the filter on step.active left out.
queryEveryStep(steps) ==
  IF \E n \in DOMAIN steps : ~steps[n].template
  THEN {unique(types(docs)) : docs \in Orders(steps)}
  ELSE {unique(types(steps))}

\* queryActiveChannels taking the message templates from the store whether or
\* not a step lacks its own.
queryStoreAlways(steps) ==
  {unique(types(docs)) : docs \in findMessageTemplates(steps)}

\* The lists queryActiveChannels can return for a workflow's steps.
queryActiveChannels(steps) ==
  IF stepMissingMessageTemplate(steps)
  THEN {unique(types(docs)) : docs \in findMessageTemplates(steps)}
  ELSE {unique(types(activeSteps(steps)))}

\* ------------------------------------------------ the response helpers

\* filterActiveChannels deleting nothing.
filterNothing(active, preference) ==
  IF preference = None THEN << >> ELSE preference[1]

\* Object.assign({}, preference) with every key that is no active channel
\* deleted; an undefined preference gives {}.
filterActiveChannels(active, preference) ==
  IF preference = None THEN << >>
  ELSE [key \in DOMAIN preference[1] \cap Range(active) |-> preference[1][key]]

getResponse(responseTemplate, enabled, channels, active) ==
  [template |-> responseTemplate,
   preference |-> [enabled |-> enabled,
                   channels |-> filterActiveChannels(active, channels)]]

\* getNoSettingFallback with the sms key left out of the fallback map.
fallbackWithoutSms(template, active) ==
  getResponse(template, TRUE, Some([key \in Channel \ {"sms"} |-> TRUE]), active)

getNoSettingFallback(template, active) ==
  getResponse(template, TRUE, Some([key \in Channel |-> TRUE]), active)

mapResponseTemplate(template) ==
  [_id |-> template._id,
   name |-> template.name,
   critical |-> IF template.critical # None THEN template.critical[1] ELSE TRUE]

\* subscriberPreferenceIsWhole comparing the keys, not their number.
wholeByKeys(preference, active) ==
  IF preference = None THEN FALSE
  ELSE DOMAIN preference[1] = Range(active)

subscriberPreferenceIsWhole(preference, active) ==
  IF preference = None THEN FALSE
  ELSE Cardinality(DOMAIN preference[1]) = Len(active)

\* subscriberPreference?.channels
channelsOf(preference) ==
  IF preference = None THEN None ELSE preference[1].channels

\* subscriberPreference?.enabled ?? true
enabledOf(preference) ==
  IF preference = None THEN TRUE
  ELSE IF preference[1].enabled = None THEN TRUE
  ELSE preference[1].enabled[1]

\* Object.assign({}, templatePreference, subscriberChannels)
assign(templatePreference, subscriberChannels) ==
  [key \in DOMAIN templatePreference \cup DOMAIN subscriberChannels |->
     IF key \in DOMAIN subscriberChannels THEN subscriberChannels[key]
     ELSE templatePreference[key]]

\* execute, from the stored preference's arrival to the return.
resolve(template, preference, active) ==
  LET responseTemplate == mapResponseTemplate(template)
      subscriberPreferenceEnabled == enabledOf(preference)
      templatePreference == template.preferenceSettings
  IN  IF subscriberPreferenceIsWhole(channelsOf(preference), active)
      THEN getResponse(responseTemplate, subscriberPreferenceEnabled,
                       channelsOf(preference), active)
      ELSE IF templatePreference # None
      THEN IF channelsOf(preference) = None
           THEN getResponse(responseTemplate, subscriberPreferenceEnabled,
                            templatePreference, active)
           ELSE getResponse(responseTemplate, subscriberPreferenceEnabled,
                            Some(assign(templatePreference[1],
                                        channelsOf(preference)[1])),
                            active)
      ELSE getNoSettingFallback(responseTemplate, active)

\* ------------------------------------------------------------------ state

VARIABLES
  commands,             \* the GetSubscriberTemplatePreferenceCommand of each call
  pc,                   \* where each call of execute stands
  activeChannels,       \* each call's activeChannels
  subscriber,           \* each call's subscriber, once resolved
  subscriberPreference, \* each call's subscriberPreference, once fetched
  preferenceQueried,    \* whether each call has issued the findOne
  response,             \* each call's returned response
  error,                \* each call's thrown exception
  settled,              \* the calls in the order they returned or threw
  batchPc,              \* where the batch call stands
  admin,                \* the batch call's admin
  templateStore,        \* the environment's active workflows, as stored
  templateList,         \* the batch call's templateList
  analytics,            \* what became of the analytics event
  result,               \* the list the batch call returned
  batchError            \* the exception the batch call threw

callVars ==
  <<commands, pc, activeChannels, subscriber, subscriberPreference,
    preferenceQueried, response, error, settled>>

batchVars ==
  <<batchPc, admin, templateStore, templateList, analytics, result, batchError>>

vars ==
  <<commands, pc, activeChannels, subscriber, subscriberPreference,
    preferenceQueried, response, error, settled, batchPc, admin, templateStore,
    templateList, analytics, result, batchError>>

Calls == DOMAIN commands

\* The calls of cmds, each about to run queryActiveChannels.
Started(cmds) ==
  /\ commands = cmds
  /\ pc = [i \in DOMAIN cmds |-> "queryActiveChannels"]
  /\ activeChannels = [i \in DOMAIN cmds |-> << >>]
  /\ subscriber = [i \in DOMAIN cmds |-> None]
  /\ subscriberPreference = [i \in DOMAIN cmds |-> None]
  /\ preferenceQueried = [i \in DOMAIN cmds |-> FALSE]
  /\ response = [i \in DOMAIN cmds |-> None]
  /\ error = [i \in DOMAIN cmds |-> None]
  /\ settled = << >>

\* No batch call: execute is called directly.
NoBatch ==
  /\ batchPc = "none"
  /\ admin = None
  /\ templateStore = << >>
  /\ templateList = << >>
  /\ analytics = "none"
  /\ result = None
  /\ batchError = None

\* ---------------------------------- GetSubscriberTemplatePreference.execute

\* await this.queryActiveChannels(command)
ExecQueryActiveChannels(i) ==
  /\ pc[i] = "queryActiveChannels"
  /\ \E channels \in queryActiveChannels(commands[i].template.steps) :
       activeChannels' = [activeChannels EXCEPT ![i] = channels]
  /\ pc' = [pc EXCEPT ![i] = "findSubscriber"]
  /\ UNCHANGED <<commands, subscriber, subscriberPreference, preferenceQueried,
                 response, error, settled>>
  /\ UNCHANGED batchVars

\* command.subscriber ?? await subscriberRepository.findBySubscriberId(...),
\* found being what the lookup returns; no subscriber throws.
ExecFindSubscriber(i, found) ==
  /\ pc[i] = "findSubscriber"
  /\ subscriber' = [subscriber EXCEPT ![i] =
                      IF commands[i].subscriber # None
                      THEN commands[i].subscriber ELSE found]
  /\ IF subscriber'[i] = None
     THEN /\ pc' = [pc EXCEPT ![i] = "failed"]
          /\ error' = [error EXCEPT ![i] = Some("Subscriber not found")]
          /\ settled' = Append(settled, i)
     ELSE /\ pc' = [pc EXCEPT ![i] = "findPreference"]
          /\ UNCHANGED <<error, settled>>
  /\ UNCHANGED <<commands, activeChannels, subscriberPreference,
                 preferenceQueried, response>>
  /\ UNCHANGED batchVars

\* await subscriberPreferenceRepository.findOne(...), stored being the record
\* it returns, and the rest of execute up to its return.
ExecFindPreference(i, stored) ==
  /\ pc[i] = "findPreference"
  /\ subscriberPreference' = [subscriberPreference EXCEPT ![i] = stored]
  /\ preferenceQueried' = [preferenceQueried EXCEPT ![i] = TRUE]
  /\ response' = [response EXCEPT ![i] =
                    Some(resolve(commands[i].template, stored, activeChannels[i]))]
  /\ pc' = [pc EXCEPT ![i] = "done"]
  /\ settled' = Append(settled, i)
  /\ UNCHANGED <<commands, activeChannels, subscriber, error>>
  /\ UNCHANGED batchVars

\* ---------------------------------------- GetSubscriberPreference.execute

\* await memberRepository.getOrganizationAdminAccount(...), found being what
\* it returns.
BatchGetAdmin(found) ==
  /\ batchPc = "getAdmin"
  /\ admin' = found
  /\ batchPc' = "getActiveList"
  /\ UNCHANGED <<templateStore, templateList, analytics, result, batchError>>
  /\ UNCHANGED callVars

\* BatchGetActiveList awaiting track and letting its failure through.
BatchGetActiveListAwaitingTrack ==
  /\ batchPc = "getActiveList"
  /\ templateList' = templateStore
  /\ \E delivered \in BOOLEAN :
       /\ analytics' = IF admin = None THEN "none"
                       ELSE IF delivered THEN "delivered" ELSE "failed"
       /\ IF analytics' = "failed"
          THEN /\ batchPc' = "rejected"
               /\ batchError' = Some("track failed")
               /\ UNCHANGED callVars
          ELSE /\ batchPc' = "awaiting"
               /\ commands' = [i \in DOMAIN templateStore |->
                                 [template |-> templateStore[i],
                                  subscriber |-> None]]
               /\ pc' = [i \in DOMAIN templateStore |-> "queryActiveChannels"]
               /\ activeChannels' = [i \in DOMAIN templateStore |-> << >>]
               /\ subscriber' = [i \in DOMAIN templateStore |-> None]
               /\ subscriberPreference' = [i \in DOMAIN templateStore |-> None]
               /\ preferenceQueried' = [i \in DOMAIN templateStore |-> FALSE]
               /\ response' = [i \in DOMAIN templateStore |-> None]
               /\ error' = [i \in DOMAIN templateStore |-> None]
               /\ settled' = << >>
               /\ UNCHANGED batchError
  /\ UNCHANGED <<admin, templateStore, result>>

\* await notificationTemplateRepository.getActiveList(...), then, without
\* awaiting it, analyticsService.track(...) if there is an admin, then
\* templateList.map(...): every workflow's execute is started, and the call
\* awaits Promise.all of them.
BatchGetActiveList ==
  /\ batchPc = "getActiveList"
  /\ templateList' = templateStore
  /\ analytics' = IF admin # None THEN "tracking" ELSE "none"
  /\ commands' = [i \in DOMAIN templateStore |->
                    [template |-> templateStore[i], subscriber |-> None]]
  /\ pc' = [i \in DOMAIN templateStore |-> "queryActiveChannels"]
  /\ activeChannels' = [i \in DOMAIN templateStore |-> << >>]
  /\ subscriber' = [i \in DOMAIN templateStore |-> None]
  /\ subscriberPreference' = [i \in DOMAIN templateStore |-> None]
  /\ preferenceQueried' = [i \in DOMAIN templateStore |-> FALSE]
  /\ response' = [i \in DOMAIN templateStore |-> None]
  /\ error' = [i \in DOMAIN templateStore |-> None]
  /\ settled' = << >>
  /\ batchPc' = "awaiting"
  /\ UNCHANGED <<admin, templateStore, result, batchError>>

\* The analytics service delivers the event.
TrackDelivered ==
  /\ analytics = "tracking"
  /\ analytics' = "delivered"
  /\ UNCHANGED <<batchPc, admin, templateStore, templateList, result, batchError>>
  /\ UNCHANGED callVars

\* The analytics service fails to deliver the event and swallows the failure.
TrackFailed ==
  /\ analytics = "tracking"
  /\ analytics' = "failed"
  /\ UNCHANGED <<batchPc, admin, templateStore, templateList, result, batchError>>
  /\ UNCHANGED callVars

\* BatchReturn filling the list in the order the calls returned.
BatchReturnAsSettled ==
  /\ batchPc = "awaiting"
  /\ \A i \in Calls : pc[i] = "done"
  /\ result' = Some([k \in DOMAIN settled |-> response[settled[k]][1]])
  /\ batchPc' = "returned"
  /\ UNCHANGED <<admin, templateStore, templateList, analytics, batchError>>
  /\ UNCHANGED callVars

\* BatchReturn waiting for every call to settle and keeping the responses of
\* those that returned (Promise.allSettled).
BatchReturnFulfilled ==
  /\ batchPc = "awaiting"
  /\ \A i \in Calls : pc[i] \in {"done", "failed"}
  /\ LET returned == SelectSeq([i \in Calls |-> i], LAMBDA i : pc[i] = "done")
     IN  result' = Some([k \in DOMAIN returned |-> response[returned[k]][1]])
  /\ batchPc' = "returned"
  /\ UNCHANGED <<admin, templateStore, templateList, analytics, batchError>>
  /\ UNCHANGED callVars

\* Promise.all fulfils: every call has returned, and the list holds the
\* responses by position.
BatchReturn ==
  /\ batchPc = "awaiting"
  /\ \A i \in Calls : pc[i] = "done"
  /\ result' = Some([i \in Calls |-> response[i][1]])
  /\ batchPc' = "returned"
  /\ UNCHANGED <<admin, templateStore, templateList, analytics, batchError>>
  /\ UNCHANGED callVars

\* The calls that have thrown, in the order they threw.
rejections == SelectSeq(settled, LAMBDA i : pc[i] = "failed")

\* Promise.all rejects with the first rejection; the other calls run on.
BatchReject ==
  /\ batchPc = "awaiting"
  /\ rejections # << >>
  /\ batchError' = error[rejections[1]]
  /\ batchPc' = "rejected"
  /\ UNCHANGED <<admin, templateStore, templateList, analytics, result>>
  /\ UNCHANGED callVars

\* ------------------------------------------------------------ the inputs

\* The channels the steps and the default preference maps of the checked
\* direct calls use.
InputChannels == {"email", "sms"}

\* The channels the stored preference maps of the checked direct calls have
\* keys for: those, and one that no checked workflow uses.
StoredChannels == InputChannels \cup {"push"}

Subscribers == {"subscriber"}

Admins == {"admin"}

\* A workflow (NotificationTemplateEntity).
Template(id, critical, steps, preferenceSettings) ==
  [_id |-> id, name |-> "workflow", critical |-> critical, steps |-> steps,
   preferenceSettings |-> preferenceSettings]

\* The stored preference records findOne can return.
StoredPreferences ==
  Opt([enabled : Opt(BOOLEAN), channels : Opt(ChannelMaps(StoredChannels))])

\* The commands of a direct call of execute.
Commands ==
  {[template |-> Template(1, None, steps, settings), subscriber |-> passed] :
     steps \in StepLists(InputChannels, MaxSteps),
     settings \in Opt(ChannelMaps(InputChannels)),
     passed \in Opt(Subscribers)}

\* ------------------------------------------- one direct call of execute

Init ==
  /\ \E command \in Commands : Started(<<command>>)
  /\ NoBatch

Next ==
  \E i \in Calls :
    \/ ExecQueryActiveChannels(i)
    \/ \E found \in Opt(Subscribers) : ExecFindSubscriber(i, found)
    \/ \E stored \in StoredPreferences : ExecFindPreference(i, stored)

Spec == Init /\ [][Next]_vars

\* ------------------- queryActiveChannels, twice on the same workflow

QueryChannels == {"email", "sms", "push"}

ChannelCommands ==
  {[template |-> Template(1, None, steps, None), subscriber |-> None] :
     steps \in StepLists(QueryChannels, MaxQuerySteps)}

InitChannels ==
  /\ \E command \in ChannelCommands : Started(<<command, command>>)
  /\ NoBatch

NextChannels == \E i \in Calls : ExecQueryActiveChannels(i)

SpecChannels == InitChannels /\ [][NextChannels]_vars

\* ------------------------------------------------------- the batch call

Step(active, template, type) ==
  [active |-> active, template |-> template, type |-> type]

\* The workflows an environment's active list is drawn from.
Workflows ==
  {Template(1, None,
            <<Step(TRUE, TRUE, "email"), Step(TRUE, TRUE, "sms"),
              Step(FALSE, TRUE, "push")>>,
            Some([key \in {"email", "sms"} |-> key = "email"])),
   Template(2, Some(FALSE),
            <<Step(TRUE, FALSE, "in_app"), Step(TRUE, TRUE, "chat")>>,
            None),
   Template(3, Some(TRUE),
            <<Step(TRUE, TRUE, "push")>>,
            Some([key \in {"push", "email"} |-> FALSE]))}

\* The lists of at most n workflows, none twice.
WorkflowLists(n) ==
  {list \in UNION {[1..len -> Workflows] : len \in 0..n} :
     \A a, b \in DOMAIN list : a # b => list[a] # list[b]}

\* The stored preference records findOne can return in the batch call.
BatchPreferences ==
  {None,
   Some([enabled |-> Some(FALSE),
         channels |-> Some([key \in {"sms"} |-> TRUE])])}

InitBatch ==
  /\ batchPc = "getAdmin"
  /\ admin = None
  /\ templateStore \in WorkflowLists(MaxWorkflows)
  /\ templateList = << >>
  /\ analytics = "none"
  /\ result = None
  /\ batchError = None
  /\ Started(<< >>)

NextBatch ==
  \/ \E found \in Opt(Admins) : BatchGetAdmin(found)
  \/ BatchGetActiveList
  \/ TrackDelivered
  \/ TrackFailed
  \/ BatchReturn
  \/ BatchReject
  \/ \E i \in Calls :
       \/ ExecQueryActiveChannels(i)
       \/ \E found \in Opt(Subscribers) : ExecFindSubscriber(i, found)
       \/ \E stored \in BatchPreferences : ExecFindPreference(i, stored)

SpecBatch == InitBatch /\ [][NextBatch]_vars

\* ------------------------------------------------------------ properties

\* The channels of a workflow's active steps.
ActiveTypes(i) ==
  {commands[i].template.steps[n].type :
     n \in {m \in DOMAIN commands[i].template.steps :
              commands[i].template.steps[m].active}}

Returned(i) == pc[i] = "done"

\* The channel map of call i's response.
Resolved(i) == response[i][1].preference.channels

\* Call i's workflow has a default preference map.
HasDefault(i) == commands[i].template.preferenceSettings # None

Default(i) == commands[i].template.preferenceSettings[1]

\* Call i fetched a stored preference that has a channel map.
HasStored(i) ==
  /\ subscriberPreference[i] # None
  /\ subscriberPreference[i][1].channels # None

Stored(i) == subscriberPreference[i][1].channels[1]

\* The stored map has as many keys as the workflow has active channels.
CountsAgree(i) ==
  HasStored(i) /\ Cardinality(DOMAIN Stored(i)) = Cardinality(ActiveTypes(i))

\* C1: the channel map of every response has only active channels of the
\* workflow as keys, whatever the steps, the default map and the stored
\* preference are.
C1_KeysAreActive ==
  \A i \in Calls : Returned(i) => DOMAIN Resolved(i) \subseteq ActiveTypes(i)

\* A merged response from which a key of the default map and a key of the
\* stored map were pruned, and that kept a key.
C1_Witness ==
  \E i \in Calls :
    /\ Returned(i) /\ HasDefault(i) /\ HasStored(i) /\ ~CountsAgree(i)
    /\ DOMAIN Default(i) \ ActiveTypes(i) # {}
    /\ DOMAIN Stored(i) \ ActiveTypes(i) # {}
    /\ Resolved(i) # << >>

\* C2: the response's enabled flag is the stored preference's enabled value
\* when a stored preference exists and defines it, and true otherwise, on
\* every return path.
C2_EnabledIsStored ==
  \A i \in Calls :
    Returned(i) =>
      response[i][1].preference.enabled =
        IF /\ subscriberPreference[i] # None
           /\ subscriberPreference[i][1].enabled # None
        THEN subscriberPreference[i][1].enabled[1]
        ELSE TRUE

\* C3: with a default map and a stored map that lacks the key of some active
\* channel, every active channel resolves to the stored value if the stored
\* map has its key, and to the default map's value otherwise.
C3_PartialMerge ==
  \A i \in Calls :
    ( /\ Returned(i) /\ HasDefault(i) /\ HasStored(i)
      /\ ActiveTypes(i) \ DOMAIN Stored(i) # {} ) =>
      \A channel \in ActiveTypes(i) :
        IF channel \in DOMAIN Stored(i)
        THEN /\ channel \in DOMAIN Resolved(i)
             /\ Resolved(i)[channel] = Stored(i)[channel]
        ELSE IF channel \in DOMAIN Default(i)
        THEN /\ channel \in DOMAIN Resolved(i)
             /\ Resolved(i)[channel] = Default(i)[channel]
        ELSE channel \notin DOMAIN Resolved(i)

C5_FallbackAllTrue ==
  \A i \in Calls :
    (Returned(i) /\ ~HasDefault(i) /\ ~CountsAgree(i)) =>
      /\ Resolved(i) = [key \in ActiveTypes(i) |-> TRUE]
      /\ subscriberPreference[i] = None => response[i][1].preference.enabled

\* The fallback taken over a stored map that turns an active channel off.
C5_Witness ==
  \E i \in Calls :
    /\ Returned(i) /\ ~HasDefault(i) /\ HasStored(i) /\ ~CountsAgree(i)
    /\ \E key \in DOMAIN Stored(i) \cap ActiveTypes(i) : ~Stored(i)[key]
    /\ Cardinality(ActiveTypes(i)) = 2

\* Call i has its activeChannels.
Queried(i) == pc[i] # "queryActiveChannels"

Steps(i) == commands[i].template.steps

\* Every active step of call i's workflow carries its message template.
Embedded(i) ==
  \A n \in DOMAIN Steps(i) : Steps(i)[n].active => Steps(i)[n].template

\* The first active step of call i's workflow that uses the channel.
FirstSeen(i, channel) ==
  CHOOSE n \in DOMAIN Steps(i) :
    /\ Steps(i)[n].active /\ Steps(i)[n].type = channel
    /\ \A m \in 1..(n - 1) :
         ~(Steps(i)[m].active /\ Steps(i)[m].type = channel)

\* C9: activeChannels holds no channel twice and only channels of active
\* steps (none for a workflow without active steps), on both paths; when
\* every active step carries its message template the channels stand in
\* first-seen order.
C9_DistinctAndActive ==
  \A i \in Calls :
    Queried(i) =>
      /\ \A a, b \in DOMAIN activeChannels[i] :
           a # b => activeChannels[i][a] # activeChannels[i][b]
      /\ Range(activeChannels[i]) \subseteq ActiveTypes(i)
      /\ ActiveTypes(i) = {} => activeChannels[i] = << >>
      /\ Embedded(i) =>
           \A a, b \in DOMAIN activeChannels[i] :
             a < b => FirstSeen(i, activeChannels[i][a])
                        < FirstSeen(i, activeChannels[i][b])

\* A workflow with two active steps on one channel and an inactive step on
\* another channel, queried.
C9_Witness ==
  \E i \in Calls :
    /\ Queried(i)
    /\ \E a, b \in DOMAIN Steps(i) :
         /\ a # b /\ Steps(i)[a].active /\ Steps(i)[b].active
         /\ Steps(i)[a].type = Steps(i)[b].type
    /\ \E n \in DOMAIN Steps(i) :
         ~Steps(i)[n].active /\ Steps(i)[n].type \notin ActiveTypes(i)
    /\ Len(activeChannels[i]) = 1

\* C10 as stated: two calls of queryActiveChannels on the same workflow
\* yield the same sequence of channels, on both paths.
C10_SameSequence ==
  (Calls = {1, 2} /\ Queried(1) /\ Queried(2)) =>
    activeChannels[1] = activeChannels[2]

\* C10 as amended: two calls on the same workflow yield the same channels,
\* and the same sequence when every active step carries its message template.
C10_SameChannels ==
  (Calls = {1, 2} /\ Queried(1) /\ Queried(2)) =>
    /\ Range(activeChannels[1]) = Range(activeChannels[2])
    /\ Embedded(1) => activeChannels[1] = activeChannels[2]

\* Two calls on a workflow of two channels, each active step with its
\* message template.
C10_Witness ==
  /\ Calls = {1, 2} /\ Queried(1) /\ Queried(2)
  /\ Embedded(1)
  /\ Len(activeChannels[1]) >= 2

\* C6: the list the batch call returns has one response per workflow of
\* templateList, the one at position i being the response of the call for
\* the workflow at position i, in whatever order the calls ran and returned.
C6_ListFollowsTemplateList ==
  batchPc = "returned" =>
    /\ DOMAIN result[1] = DOMAIN templateList
    /\ \A i \in DOMAIN templateList :
         /\ commands[i].template = templateList[i]
         /\ result[1][i] = response[i][1]
         /\ result[1][i].template._id = templateList[i]._id

\* A returned list of two whose second call returned first.
C6_Witness ==
  /\ batchPc = "returned"
  /\ Len(templateList) >= 2
  /\ settled[1] = 2

\* C7: the batch call starts every workflow's call with or without an admin
\* and whatever becomes of the analytics event, its return does not wait for
\* the event, the list it returns is the calls' responses, and the only
\* exception it throws is one a call threw.
C7_AnalyticsApart ==
  /\ batchPc \in {"awaiting", "returned", "rejected"} =>
       Calls = DOMAIN templateList
  /\ (batchPc = "awaiting" /\ \A i \in Calls : Returned(i)) =>
       ENABLED BatchReturn
  /\ batchPc = "returned" =>
       result = Some([i \in DOMAIN templateList |->
                        resolve(templateList[i], subscriberPreference[i],
                                activeChannels[i])])
  /\ batchPc = "rejected" =>
       \E i \in Calls : pc[i] = "failed" /\ batchError = error[i]

\* A list returned after the analytics event failed.
C7_Witness ==
  /\ batchPc = "returned"
  /\ analytics = "failed"
  /\ Len(templateList) >= 1

\* C8: a call whose subscriber lookup finds none throws the not-found
\* exception, returns no response and has not queried the stored preference;
\* a call goes on only with a subscriber; the batch call returns a list only
\* when every call returned, and with a call that threw it can only throw,
\* and returns no list.
C8_NotFoundPropagates ==
  /\ \A i \in Calls :
       /\ pc[i] = "failed" =>
            /\ commands[i].subscriber = None /\ subscriber[i] = None
            /\ error[i] = Some("Subscriber not found")
            /\ response[i] = None
            /\ ~preferenceQueried[i]
       /\ pc[i] \in {"findPreference", "done"} => subscriber[i] # None
       /\ pc[i] # "failed" => error[i] = None
  /\ batchPc = "returned" =>
       /\ \A i \in Calls : Returned(i)
       /\ Len(result[1]) = Len(templateList)
  /\ (\E i \in Calls : pc[i] = "failed") =>
       /\ batchPc \in {"awaiting", "rejected"}
       /\ result = None
       /\ batchPc = "awaiting" => ENABLED BatchReject
  /\ batchPc = "rejected" =>
       batchError = Some("Subscriber not found") /\ result = None

\* A batch call that threw although one of its two calls returned.
C8_Witness ==
  /\ batchPc = "rejected"
  /\ \E i, j \in Calls : pc[i] = "failed" /\ pc[j] = "done"

====
